---------------------------- MODULE Spec2Model ----------------------------
(***************************************************************************)
(* kubelet-meta-proxy: the namespace label cache (NamespaceMetrics), the   *)
(* reconciler that fills it (NamespaceLabelReconciler.Reconcile), the      *)
(* request pipeline that reads it (Handler, FetchAndProcessMetrics,        *)
(* fetchMetrics, EnrichMetricFamilies), the server that runs it           *)
(* (NewServerRunnable, ServerRunnable.Start) and the options of the        *)
(* controller (controllerOptions).                                         *)
(***************************************************************************)
EXTENDS Integers, Sequences, FiniteSets, TLC

VARIABLES
    stamps,     \* the API server adds the name-identity label to every namespace
    cluster,    \* namespace name -> the Namespace object (exists, labels)
    changes,    \* number of cluster events so far (capped by MaxChanges)
    queue,      \* the controller's work queue: namespace names waiting for a worker
    failures,   \* namespace name -> consecutive failed reconciles (rate limiter)
    worker,     \* reconcile worker -> its position in Reconcile and its locals
    cache,      \* NamespaceMetrics.Namespaces: namespace name -> label map
    req,        \* request handler -> its position in the pipeline and its locals
    scrapes,    \* number of requests accepted so far (capped by MaxScrapes)
    crashed,    \* the Go runtime has thrown a fatal error (concurrent map access)
    delay,      \* namespace name -> seconds the rate limiter gave its last requeue (0: none)
    server,     \* ServerRunnable.Start: "serving", "draining" or "returned"
    kubeApiserver,  \* the kubeApiserver argument of NewServerRunnable ("" for direct)
    opts,       \* handler -> the ServerRunnableOpts it was constructed with
    stored,     \* namespace name -> the stamp of the read that gave the labels of its entry
    optionsInit,    \* the sync.Once of controllerOptions: "new", "running" or "done"
    defaultOptions, \* the controller.Options defaultOptions points to (NoOptions: nil)
    call,       \* caller of controllerOptions -> its position in it, its arguments and locals
    listener,   \* the goroutine of line 85: "starting", "listening", "failed" or "closed"
    logged,     \* the listener's error has been written to the log (line 87)
    startErr    \* what Start has returned ("pending": it has not returned)

vars == <<stamps, cluster, changes, queue, failures, worker, cache, req, scrapes, crashed,
          delay, server, kubeApiserver, opts, stored, optionsInit, defaultOptions, call, listener, logged, startErr>>

---------------------------------------------------------------------------
(* Bounds of the model *)

\* cluster events (create, update, delete of a namespace) in one behaviour
MaxChanges == 1

\* requests the server accepts in one behaviour
MaxScrapes == 1

\* sample lines of a body drawn for one call of EnrichMetricFamilies
MaxSamples == 2

\* consecutive failed reads of one namespace
MaxFailures == 1

\* consecutive failed reads of one namespace where the reconciler runs alone
MaxRetries == 5

\* requests the server accepts in one behaviour where the server runs alone
MaxServed == 2

\* calls of controllerOptions by one goroutine
MaxCalls == 2

\* cluster events in one behaviour where nobody scrapes
MaxEvents == 2

---------------------------------------------------------------------------
(* Values *)

Workers == {"w1", "w2"}

\* the two handlers NewServerRunnable registers, named by their paths
Handlers == {"/metrics", "/metrics/cadvisor"}

\* the path the collector scrapes in the concurrent model
Scraped == {"/metrics"}

NsNames == {"ns1", "ns2"}

LabelMetadataName == "kubernetes.io/metadata.name"

NoLabels == [k \in {} |-> ""]

\* a namespace that does not exist, and one that exists with the labels ls
Absent == [exists |-> FALSE, labels |-> NoLabels]

Present(ls) == [exists |-> TRUE, labels |-> ls]

Map1(k, v) == [x \in {k} |-> v]

\* the union of two label maps with disjoint keys
Merge(f, g) == [x \in (DOMAIN f) \cup (DOMAIN g) |-> IF x \in DOMAIN f THEN f[x] ELSE g[x]]

LabelPair(n, v) == [name |-> n, value |-> v]

\* all orders in which a Go range statement may visit the keys S of a map
Orders(S) == {o \in [1..Cardinality(S) -> S] : \A i, j \in 1..Cardinality(S) : i # j => o[i] # o[j]}

---------------------------------------------------------------------------
(* metrics.go: hasLabel and the body of EnrichMetricFamilies' inner loop *)

\* lines 169-176 with the loop ending one label early
hasLabelSkipLast(labels, name) == \E i \in 1..(Len(labels) - 1) : labels[i].name = name

hasLabel(labels, name) == \E i \in 1..Len(labels) : labels[i].name = name

\* lines 132-139: the value of the first label named "namespace", "" if none
NsValue(labels) ==
    IF hasLabel(labels, "namespace")
    THEN labels[CHOOSE i \in 1..Len(labels) :
                    /\ labels[i].name = "namespace"
                    /\ \A j \in 1..(i - 1) : labels[j].name # "namespace"].value
    ELSE ""

\* lines 143-152 replacing a label the sample already carries
RECURSIVE AppendExtraOverwrite(_, _, _)
AppendExtraOverwrite(labels, extraLabels, order) ==
    IF order = <<>> THEN labels
    ELSE LET k == Head(order)
             dropped == SelectSeq(labels, LAMBDA l : l.name # k)
         IN AppendExtraOverwrite(Append(dropped, LabelPair(k, extraLabels[k])),
                                 extraLabels, Tail(order))

\* lines 143-152 without the hasLabel test of line 144
RECURSIVE AppendExtraNoCheck(_, _, _)
AppendExtraNoCheck(labels, extraLabels, order) ==
    IF order = <<>> THEN labels
    ELSE LET k == Head(order)
         IN AppendExtraNoCheck(Append(labels, LabelPair(k, extraLabels[k])),
                               extraLabels, Tail(order))

\* lines 143-152 leaving the range one key early
RECURSIVE AppendExtraDropLast(_, _, _)
AppendExtraDropLast(labels, extraLabels, order) ==
    IF Len(order) <= 1 THEN labels
    ELSE LET k == Head(order)
         IN AppendExtraDropLast(IF hasLabel(labels, k) THEN labels
                                ELSE Append(labels, LabelPair(k, extraLabels[k])),
                                extraLabels, Tail(order))

\* lines 143-152: range over extraLabels in the order `order`, appending the
\* pairs whose key the sample does not carry yet
RECURSIVE AppendExtra(_, _, _)
AppendExtra(labels, extraLabels, order) ==
    IF order = <<>> THEN labels
    ELSE LET k == Head(order)
         IN AppendExtra(IF hasLabel(labels, k) THEN labels
                        ELSE Append(labels, LabelPair(k, extraLabels[k])),
                        extraLabels, Tail(order))

\* lines 141-142: the guard of the enrichment of one sample
Matches(labels, namespaces) ==
    /\ NsValue(labels) # ""
    /\ NsValue(labels) \in DOMAIN namespaces

\* lines 132-154 with nsValue kept from an earlier sample: an unmatched sample
\* is enriched from some entry of the cache
EnrichLabelsStale(labels, namespaces) ==
    IF Matches(labels, namespaces)
    THEN {AppendExtra(labels, namespaces[NsValue(labels)], o) :
              o \in Orders(DOMAIN namespaces[NsValue(labels)])}
    ELSE IF DOMAIN namespaces = {} THEN {labels}
    ELSE UNION {{AppendExtra(labels, namespaces[n], o) : o \in Orders(DOMAIN namespaces[n])} :
                   n \in DOMAIN namespaces}

\* lines 132-154 holding a sample back until the cache knows its namespace
EnrichLabelsWait(labels, namespaces) ==
    IF Matches(labels, namespaces)
    THEN {AppendExtra(labels, namespaces[NsValue(labels)], o) :
              o \in Orders(DOMAIN namespaces[NsValue(labels)])}
    ELSE IF NsValue(labels) # "" THEN {} ELSE {labels}

\* lines 132-154 for one sample: all label lists the loop body can leave
EnrichLabels(labels, namespaces) ==
    IF Matches(labels, namespaces)
    THEN {AppendExtra(labels, namespaces[NsValue(labels)], o) :
              o \in Orders(DOMAIN namespaces[NsValue(labels)])}
    ELSE {labels}

---------------------------------------------------------------------------
(* The exposition codec as the pipeline uses it (expfmt.TextParser and     *)
(* expfmt.NewEncoder): a body is a sequence of lines, a family groups the  *)
(* samples of one name in their order of appearance, with the help text    *)
(* and the type its annotation lines give it.                              *)

\* a sample line with the timestamp ts (0: the line has none)
SampleLineAt(n, ls, v, ts) ==
    [kind |-> "sample", name |-> n, labels |-> ls, value |-> v, ts |-> ts, text |-> ""]

SampleLine(n, ls, v) == SampleLineAt(n, ls, v, 0)

\* # HELP n text
HelpLine(n, text) ==
    [kind |-> "help", name |-> n, labels |-> <<>>, value |-> 0, ts |-> 0, text |-> text]

\* # TYPE n t
TypeLine(n, t) ==
    [kind |-> "type", name |-> n, labels |-> <<>>, value |-> 0, ts |-> 0, text |-> t]

BadLine == [kind |-> "bad", name |-> "", labels |-> <<>>, value |-> 0, ts |-> 0, text |-> ""]

\* the parser rejects a malformed line, a second HELP or TYPE line of a
\* family, and a TYPE line that follows a sample of its family
DecodeErr(raw) ==
    \/ \E i \in 1..Len(raw) : raw[i].kind = "bad"
    \/ \E i, j \in 1..Len(raw) :
          /\ i < j
          /\ raw[i].name = raw[j].name
          /\ \/ raw[i].kind = "help" /\ raw[j].kind = "help"
             \/ raw[i].kind \in {"type", "sample"} /\ raw[j].kind = "type"

\* the help text of family n ("": none)
HelpOf(raw, n) ==
    IF \E i \in 1..Len(raw) : raw[i].kind = "help" /\ raw[i].name = n
    THEN raw[CHOOSE i \in 1..Len(raw) : raw[i].kind = "help" /\ raw[i].name = n].text
    ELSE ""

\* the type of family n: a family without TYPE line is untyped
TypeOf(raw, n) ==
    IF \E i \in 1..Len(raw) : raw[i].kind = "type" /\ raw[i].name = n
    THEN raw[CHOOSE i \in 1..Len(raw) : raw[i].kind = "type" /\ raw[i].name = n].text
    ELSE "untyped"

FamilyNames(raw) == {raw[i].name : i \in {j \in 1..Len(raw) : raw[j].kind = "sample"}}

MetricsOf(raw, n) ==
    LET mine == SelectSeq(raw, LAMBDA l : l.kind = "sample" /\ l.name = n)
    IN [i \in 1..Len(mine) |->
           [label |-> mine[i].labels, value |-> mine[i].value, ts |-> mine[i].ts]]

\* parser.TextToMetricFamilies: family name -> family (a family without
\* samples is dropped)
Decode(raw) ==
    [n \in FamilyNames(raw) |->
        [name |-> n, help |-> HelpOf(raw, n), type |-> TypeOf(raw, n),
         metric |-> MetricsOf(raw, n)]]

\* encoder.Encode(mf) fails on a family without a name
EncodeErr(fams) == \E n \in DOMAIN fams : fams[n].name = ""

EncodeFamily(mf) ==
    [name |-> mf.name, help |-> mf.help, type |-> mf.type,
     lines |-> [i \in 1..Len(mf.metric) |->
                   [labels |-> mf.metric[i].label, value |-> mf.metric[i].value,
                    ts |-> mf.metric[i].ts]]]

\* lines 158-166: one block per family, in the order `order` of the range
EncodeFamilies(fams, order) == [i \in 1..Len(order) |-> EncodeFamily(fams[order[i]])]

LabelsAt(fams, p) == fams[p[1]].metric[p[2]].label

\* line 151 putting a new sample with the labels ls in the place of the old
SetLabelsNewMetric(fams, p, ls) ==
    [fams EXCEPT ![p[1]].metric[p[2]] = [label |-> ls, value |-> @.value, ts |-> 0]]

\* line 151: metric.Label = ls for the sample at position p
SetLabels(fams, p, ls) == [fams EXCEPT ![p[1]].metric[p[2]].label = ls]

\* lines 130-131: the positions (family, index) the two nested loops visit,
\* the families in the order `order` of the range over the map
RECURSIVE VisitOrder(_, _)
VisitOrder(fams, order) ==
    IF order = <<>> THEN <<>>
    ELSE [i \in 1..Len(fams[Head(order)].metric) |-> <<Head(order), i>>]
         \o VisitOrder(fams, Tail(order))

---------------------------------------------------------------------------
(* Upstream bodies *)

SampleNsValues == {"ns1", "ns2", "unknown-ns", ""}

FamilyChoices == {"container_cpu_usage", "container_memory"}

\* the bodies the kubelet serves in the concurrent model
UpstreamBodies ==
    {<<SampleLine("container_cpu_usage",
                  <<LabelPair("namespace", "ns1"), LabelPair("pod", "x")>>, 1),
       SampleLine("container_cpu_usage",
                  <<LabelPair("namespace", "ns1"), LabelPair("pod", "y")>>, 2)>>,
     <<SampleLine("container_cpu_usage",
                  <<LabelPair("namespace", "ns1"), LabelPair("team", "legacy")>>, 1),
       SampleLine("container_memory",
                  <<LabelPair("namespace", "ns2"), LabelPair("pod", "x")>>, 3)>>,
     <<SampleLine("container_cpu_usage",
                  <<LabelPair("namespace", "unknown-ns"), LabelPair("pod", "x")>>, 1),
       BadLine>>}

\* a body the parser rejects for the place of an annotation line
MisplacedBodies ==
    {<<SampleLine("container_cpu_usage",
                  <<LabelPair("namespace", "ns1"), LabelPair("pod", "x")>>, 1),
       TypeLine("container_cpu_usage", "counter")>>}

\* bodies with annotation lines and timestamps
AnnotatedBodies ==
    {<<HelpLine("container_cpu_usage", "cpu seconds"),
       TypeLine("container_cpu_usage", "counter"),
       SampleLineAt("container_cpu_usage",
                    <<LabelPair("namespace", "ns1"), LabelPair("pod", "x")>>, 1, 1700),
       SampleLine("container_cpu_usage",
                  <<LabelPair("namespace", "ns1"), LabelPair("team", "legacy")>>, 2),
       SampleLineAt("container_memory",
                    <<LabelPair("namespace", "ns2"), LabelPair("pod", "x")>>, 3, 1701)>>,
     <<TypeLine("container_memory", "gauge"),
       SampleLineAt("container_memory",
                    <<LabelPair("namespace", "unknown-ns"), LabelPair("pod", "x")>>, 4, 1702),
       SampleLine("container_memory", <<LabelPair("pod", "y")>>, 5)>>}

---------------------------------------------------------------------------
(* Cluster state: the Namespace objects the reconciler reads *)

Meta(n) == Map1(LabelMetadataName, n)

\* the labels users put on a namespace
UserLabelSets(n) ==
    IF n = "ns1"
    THEN {NoLabels,
          Map1("team", "frontend"),
          Map1("team", "backend"),
          Merge(Map1("team", "backend"), Map1("env", "prod"))}
    ELSE {NoLabels, Map1("team", "backend")}

\* the labels of the Namespace object: the API server adds
\* kubernetes.io/metadata.name = <name> where it stamps it
ObjectLabels(n, user) == IF stamps THEN Merge(Meta(n), user) ELSE user

---------------------------------------------------------------------------
(* Reconcile, part_001 lines 31-54 *)

\* lines 45-49 without the deletion
StripNothing(labels) == labels

\* lines 45-49: delete the name-identity label
Strip(labels) == [k \in (DOMAIN labels) \ {LabelMetadataName} |-> labels[k]]

\* line 51 replacing the whole cache by the one entry
StoreAlone(namespaces, n, labels) == [x \in {n} |-> labels]

\* line 51 writing only a missing entry
StoreIfAbsent(namespaces, n, labels) ==
    [x \in (DOMAIN namespaces) \cup {n} |->
        IF x \in DOMAIN namespaces THEN namespaces[x] ELSE labels]

\* line 51: r.NamespaceMetrics.Namespaces[ns.Name] = labels
Store(namespaces, n, labels) ==
    [x \in (DOMAIN namespaces) \cup {n} |-> IF x = n THEN labels ELSE namespaces[x]]

\* the rate limiter of controllerOptions, line 71: 30 seconds doubling with
\* every consecutive failure of the item, never more than 5 minutes
BaseDelay == 30

MaxDelay == 300

RECURSIVE Pow2(_)
Pow2(k) == IF k = 0 THEN 1 ELSE 2 * Pow2(k - 1)

\* the limiter doubling without the upper bound
WhenUncapped(fails) == BaseDelay * Pow2(fails)

\* ItemExponentialFailureRateLimiter.When for an item that failed `fails`
\* times in a row before this failure
When(fails) == IF BaseDelay * Pow2(fails) > MaxDelay THEN MaxDelay ELSE BaseDelay * Pow2(fails)

\* line 37 returning the error of the read as it is
IgnoreNotFoundNever(err) == err

\* line 37: client.IgnoreNotFound(err)
IgnoreNotFound(err) == IF err = "not found" THEN "" ELSE err

\* seen: the stamp of the read that gave the labels
IdleWorker ==
    [pc |-> "idle", key |-> "", labels |-> NoLabels, seen |-> 0, read |-> "", err |-> ""]

Processing(n) == \E w \in Workers : worker[w].pc # "idle" /\ worker[w].key = n

\* a queue that hands a key to a worker while another worker processes it
DequeueAny(w, n) ==
    /\ ~crashed
    /\ worker[w].pc = "idle"
    /\ n \in queue
    /\ queue' = queue \ {n}
    /\ worker' = [worker EXCEPT ![w] = [IdleWorker EXCEPT !.pc = "get", !.key = n]]
    /\ UNCHANGED <<stamps, cluster, changes, failures, cache, req, scrapes, crashed, delay, server, kubeApiserver, opts, stored, optionsInit, defaultOptions, call, listener, logged, startErr>>

\* a worker takes a key no other worker is processing (the work queue hands
\* a key to one worker at a time)
Dequeue(w, n) ==
    /\ ~crashed
    /\ worker[w].pc = "idle"
    /\ n \in queue
    /\ ~Processing(n)
    /\ queue' = queue \ {n}
    /\ worker' = [worker EXCEPT ![w] = [IdleWorker EXCEPT !.pc = "get", !.key = n]]
    /\ UNCHANGED <<stamps, cluster, changes, failures, cache, req, scrapes, crashed, delay, server, kubeApiserver, opts, stored, optionsInit, defaultOptions, call, listener, logged, startErr>>

\* lines 36-38, the read fails with the error `why`: Reconcile returns what
\* IgnoreNotFound leaves of it
ReadFails(w, why) ==
    /\ ~crashed
    /\ worker[w].pc = "get"
    /\ worker' = [worker EXCEPT ![w].pc = "return",
                                ![w].read = why,
                                ![w].err = IgnoreNotFound(why)]
    /\ UNCHANGED <<stamps, cluster, changes, queue, failures, cache, req, scrapes, crashed, delay, server, kubeApiserver, opts, stored, optionsInit, defaultOptions, call, listener, logged, startErr>>

\* lines 36-38, the read fails with an error other than not-found (at most
\* `limit` times in a row)
GetError(w, limit) ==
    /\ worker[w].pc = "get"
    /\ failures[worker[w].key] < limit
    /\ ReadFails(w, "timeout")

\* lines 36-38 deleting the entry of a namespace that is gone
GetNotFoundEvict(w) ==
    /\ ~crashed
    /\ worker[w].pc = "get"
    /\ ~cluster[worker[w].key].exists
    /\ worker' = [worker EXCEPT ![w].pc = "return", ![w].read = "not found", ![w].err = ""]
    /\ cache' = [x \in (DOMAIN cache) \ {worker[w].key} |-> cache[x]]
    /\ UNCHANGED <<stamps, cluster, changes, queue, failures, req, scrapes, crashed, delay, server, kubeApiserver, opts, stored, optionsInit, defaultOptions, call, listener, logged, startErr>>

\* lines 36-38, the namespace is gone
GetNotFound(w) ==
    /\ worker[w].pc = "get"
    /\ ~cluster[worker[w].key].exists
    /\ ReadFails(w, "not found")

\* the controller takes Reconcile's result: an error requeues the item with
\* the delay of the rate limiter, success forgets its failures
Return(w) ==
    /\ ~crashed
    /\ worker[w].pc = "return"
    /\ IF worker[w].err # ""
       THEN /\ delay' = [delay EXCEPT ![worker[w].key] = When(failures[worker[w].key])]
            /\ failures' = [failures EXCEPT ![worker[w].key] = @ + 1]
            /\ queue' = queue \cup {worker[w].key}
       ELSE /\ delay' = [delay EXCEPT ![worker[w].key] = 0]
            /\ failures' = [failures EXCEPT ![worker[w].key] = 0]
            /\ queue' = queue
    /\ worker' = [worker EXCEPT ![w] = IdleWorker]
    /\ UNCHANGED <<stamps, cluster, changes, cache, req, scrapes, crashed, server, kubeApiserver, opts, stored, optionsInit, defaultOptions, call, listener, logged, startErr>>

\* lines 36-43, the read succeeds and the namespace has no label: return
GetEmpty(w) ==
    /\ ~crashed
    /\ worker[w].pc = "get"
    /\ cluster[worker[w].key].exists
    /\ cluster[worker[w].key].labels = NoLabels
    /\ failures' = [failures EXCEPT ![worker[w].key] = 0]
    /\ delay' = [delay EXCEPT ![worker[w].key] = 0]
    /\ worker' = [worker EXCEPT ![w] = IdleWorker]
    /\ UNCHANGED <<stamps, cluster, changes, queue, cache, req, scrapes, crashed, server, kubeApiserver, opts, stored, optionsInit, defaultOptions, call, listener, logged, startErr>>

\* lines 36-49, the read succeeds: strip the name-identity label (the read
\* is stamped with `at`)
ReadLabels(w, at) ==
    /\ ~crashed
    /\ worker[w].pc = "get"
    /\ cluster[worker[w].key].exists
    /\ cluster[worker[w].key].labels # NoLabels
    /\ worker' = [worker EXCEPT ![w].pc = "store",
                                ![w].labels = Strip(cluster[worker[w].key].labels),
                                ![w].seen = at]
    /\ UNCHANGED <<stamps, cluster, changes, queue, failures, cache, req, scrapes, crashed, delay, server, kubeApiserver, opts, stored, optionsInit, defaultOptions, call, listener, logged, startErr>>

\* lines 36-49 where the order of the reads is followed: the read is
\* stamped with the number of cluster events that have happened
GetLabelsAt(w) == ReadLabels(w, changes)

\* lines 36-49 where the order of the reads is of no interest
GetLabels(w) == ReadLabels(w, 0)

\* part_001 line 51 changing the stored label map in place: a range that
\* holds the map of this namespace sees its new content
StoreEntryInPlace(w) ==
    /\ ~crashed
    /\ worker[w].pc = "store"
    /\ cache' = Store(cache, worker[w].key, worker[w].labels)
    /\ req' = [h \in Handlers |->
                  IF /\ req[h].pc = "range"
                     /\ NsValue(LabelsAt(req[h].families, Head(req[h].todo))) = worker[w].key
                  THEN [req[h] EXCEPT !.extra = worker[w].labels]
                  ELSE req[h]]
    /\ stored' = [stored EXCEPT ![worker[w].key] = worker[w].seen]
    /\ failures' = [failures EXCEPT ![worker[w].key] = 0]
    /\ delay' = [delay EXCEPT ![worker[w].key] = 0]
    /\ worker' = [worker EXCEPT ![w] = IdleWorker]
    /\ UNCHANGED <<stamps, cluster, changes, queue, scrapes, crashed, server, kubeApiserver, opts, optionsInit, defaultOptions, call, listener, logged, startErr>>

\* lines 51-53: the write of the cache entry, and the return
StoreEntry(w) ==
    /\ ~crashed
    /\ worker[w].pc = "store"
    /\ cache' = Store(cache, worker[w].key, worker[w].labels)
    /\ stored' = [stored EXCEPT ![worker[w].key] = worker[w].seen]
    /\ failures' = [failures EXCEPT ![worker[w].key] = 0]
    /\ delay' = [delay EXCEPT ![worker[w].key] = 0]
    /\ worker' = [worker EXCEPT ![w] = IdleWorker]
    /\ UNCHANGED <<stamps, cluster, changes, queue, req, scrapes, crashed, server, kubeApiserver, opts, optionsInit, defaultOptions, call, listener, logged, startErr>>

---------------------------------------------------------------------------
(* controllerOptions, part_001 lines 64-80 *)

Callers == {"c1", "c2"}

MaxConcurrencyChoices == {1, 2}

\* cacheSyncTimeout, in seconds
CacheSyncTimeoutChoices == {60, 120}

\* defaultOptions before line 73 has run: a nil pointer
NoOptions == [RateLimiter |-> <<>>, CacheSyncTimeout |-> 0, MaxConcurrentReconciles |-> 0]

\* lines 73-77: the options made of the limiter and the arguments of a call
Options(limiter, maxConcurrency, cacheSyncTimeout) ==
    [RateLimiter |-> limiter,
     CacheSyncTimeout |-> cacheSyncTimeout,
     MaxConcurrentReconciles |-> maxConcurrency]

\* the options of the running controller: SetupWithManager (line 60) has
\* called controllerOptions with the size of the worker pool
SetupOptions == Options(<<"setup", 1>>, Cardinality(Workers), 120)

\* n: calls made so far; rateLimiters: line 71; result: what line 79 returned
IdleCall ==
    [pc |-> "idle", n |-> 0, maxConcurrency |-> 0, cacheSyncTimeout |-> 0,
     rateLimiters |-> <<>>, result |-> NoOptions]

\* line 70: a goroutine calls controllerOptions(maxConcurrency, cacheSyncTimeout)
Call(c, maxConcurrency, cacheSyncTimeout) ==
    /\ call[c].pc = "idle"
    /\ call[c].n < MaxCalls
    /\ call' = [call EXCEPT ![c] = [IdleCall EXCEPT !.pc = "limiter",
                                                    !.n = call[c].n + 1,
                                                    !.maxConcurrency = maxConcurrency,
                                                    !.cacheSyncTimeout = cacheSyncTimeout]]
    /\ UNCHANGED <<stamps, cluster, changes, queue, failures, worker, cache, req, scrapes, crashed, delay, server, kubeApiserver, opts, stored, optionsInit, defaultOptions, listener, logged, startErr>>

\* line 71: every call makes a rate limiter of its own
NewLimiter(c) ==
    /\ call[c].pc = "limiter"
    /\ call' = [call EXCEPT ![c].pc = "do", ![c].rateLimiters = <<c, call[c].n>>]
    /\ UNCHANGED <<stamps, cluster, changes, queue, failures, worker, cache, req, scrapes, crashed, delay, server, kubeApiserver, opts, stored, optionsInit, defaultOptions, listener, logged, startErr>>

\* line 72 running the function whatever the state of the guard
DoEnterAlways(c) ==
    /\ call[c].pc = "do"
    /\ optionsInit' = "running"
    /\ call' = [call EXCEPT ![c].pc = "init"]
    /\ UNCHANGED <<stamps, cluster, changes, queue, failures, worker, cache, req, scrapes, crashed, delay, server, kubeApiserver, opts, stored, defaultOptions, listener, logged, startErr>>

\* line 72: optionsInit.Do finds the guard new and runs the function; a
\* caller that finds it running waits
DoEnter(c) ==
    /\ call[c].pc = "do"
    /\ optionsInit = "new"
    /\ optionsInit' = "running"
    /\ call' = [call EXCEPT ![c].pc = "init"]
    /\ UNCHANGED <<stamps, cluster, changes, queue, failures, worker, cache, req, scrapes, crashed, delay, server, kubeApiserver, opts, stored, defaultOptions, listener, logged, startErr>>

\* lines 73-78: the function assigns defaultOptions and the guard is done
DoInit(c) ==
    /\ call[c].pc = "init"
    /\ defaultOptions' = Options(call[c].rateLimiters, call[c].maxConcurrency,
                                 call[c].cacheSyncTimeout)
    /\ optionsInit' = "done"
    /\ call' = [call EXCEPT ![c].pc = "ret"]
    /\ UNCHANGED <<stamps, cluster, changes, queue, failures, worker, cache, req, scrapes, crashed, delay, server, kubeApiserver, opts, stored, listener, logged, startErr>>

\* line 72: optionsInit.Do finds the guard done and returns at once
DoSkip(c) ==
    /\ call[c].pc = "do"
    /\ optionsInit = "done"
    /\ call' = [call EXCEPT ![c].pc = "ret"]
    /\ UNCHANGED <<stamps, cluster, changes, queue, failures, worker, cache, req, scrapes, crashed, delay, server, kubeApiserver, opts, stored, optionsInit, defaultOptions, listener, logged, startErr>>

\* line 79: return *defaultOptions
ReturnOptions(c) ==
    /\ call[c].pc = "ret"
    /\ call' = [call EXCEPT ![c].pc = "idle", ![c].result = defaultOptions]
    /\ UNCHANGED <<stamps, cluster, changes, queue, failures, worker, cache, req, scrapes, crashed, delay, server, kubeApiserver, opts, stored, optionsInit, defaultOptions, listener, logged, startErr>>

---------------------------------------------------------------------------
(* Cluster events (at most `limit` in one behaviour): each one reaches the  *)
(* controller and enqueues the key                                         *)

CreateNamespace(n, user, limit) ==
    /\ ~crashed
    /\ changes < limit
    /\ ~cluster[n].exists
    /\ cluster' = [cluster EXCEPT ![n] = Present(ObjectLabels(n, user))]
    /\ queue' = queue \cup {n}
    /\ changes' = changes + 1
    /\ UNCHANGED <<stamps, failures, worker, cache, req, scrapes, crashed, delay, server, kubeApiserver, opts, stored, optionsInit, defaultOptions, call, listener, logged, startErr>>

UpdateLabels(n, user, limit) ==
    /\ ~crashed
    /\ changes < limit
    /\ cluster[n].exists
    /\ cluster[n].labels # ObjectLabels(n, user)
    /\ cluster' = [cluster EXCEPT ![n] = Present(ObjectLabels(n, user))]
    /\ queue' = queue \cup {n}
    /\ changes' = changes + 1
    /\ UNCHANGED <<stamps, failures, worker, cache, req, scrapes, crashed, delay, server, kubeApiserver, opts, stored, optionsInit, defaultOptions, call, listener, logged, startErr>>

DeleteNamespace(n, limit) ==
    /\ ~crashed
    /\ changes < limit
    /\ cluster[n].exists
    /\ cluster' = [cluster EXCEPT ![n] = Absent]
    /\ queue' = queue \cup {n}
    /\ changes' = changes + 1
    /\ UNCHANGED <<stamps, failures, worker, cache, req, scrapes, crashed, delay, server, kubeApiserver, opts, stored, optionsInit, defaultOptions, call, listener, logged, startErr>>

---------------------------------------------------------------------------
(* The request pipeline, metrics.go lines 31-167 *)

\* the arguments of NewServerRunnable other than kubeApiserver
nodeNameOrIP == "10.0.0.7"

nodePort == "10250"

\* part_002 lines 53 and 61 giving both handlers the path of the first
NodePathSame(kube, h) ==
    (IF kube # "" THEN "/api/v1/nodes/" \o nodeNameOrIP \o "/proxy/" ELSE "/") \o "metrics"

\* part_002 lines 43-46, 53 and 61: the NodePath of the handler of path h
NodePath(kube, h) ==
    (IF kube # "" THEN "/api/v1/nodes/" \o nodeNameOrIP \o "/proxy/" ELSE "/")
    \o (IF h = "/metrics" THEN "metrics" ELSE "metrics/cadvisor")

\* part_002 lines 48-62: the options each handler is constructed with
NewServerRunnable(kube) ==
    [h \in Handlers |-> [KubeApiserver |-> kube,
                         NodeNameOrIP |-> nodeNameOrIP,
                         NodePort |-> nodePort,
                         NodePath |-> NodePath(kube, h)]]

\* fetchMetrics lines 88-93: the URL of the upstream request
FetchURL(o) ==
    "https://" \o (IF o.KubeApiserver # "" THEN o.KubeApiserver ELSE o.NodeNameOrIP)
    \o ":" \o o.NodePort \o o.NodePath

NoBody == [kind |-> "", msg |-> "", blocks |-> <<>>]

\* fetches: upstream requests issued; url: their target; cancelled: r.Context()
\* is done; respBody: the body of the upstream response; raw: line 59;
\* pass: the call of EnrichMetricFamilies under way; once: the families as
\* the first call left them; extra: the map extraLabels refers to (line 142);
\* taken: what that map held when line 142 read it; left: the keys the range
\* of line 143 has not visited yet
IdleReq ==
    [pc |-> "idle", fetches |-> 0, url |-> "", cancelled |-> FALSE, respBody |-> <<>>,
     fetch |-> "", raw |-> <<>>, parse |-> "", parsed |-> <<>>, families |-> <<>>,
     todo |-> <<>>, pass |-> 1, once |-> <<>>, extra |-> NoLabels, taken |-> NoLabels,
     left |-> {}, encode |-> "", err |-> "", text |-> <<>>,
     status |-> 0, ctype |-> "", body |-> NoBody]

\* Handler lines 37-44 writing the body whatever FetchAndProcessMetrics returned
HandlerResponseIgnoreErr(data, err) ==
    [status |-> 200, ctype |-> "text/plain; version=0.0.4",
     body |-> [kind |-> "exposition", msg |-> "", blocks |-> data]]

\* Handler lines 37-44: http.Error on failure, else the header and the body
HandlerResponse(data, err) ==
    IF err # ""
    THEN [status |-> 500, ctype |-> "text/plain; charset=utf-8",
          body |-> [kind |-> "error", msg |-> err, blocks |-> <<>>]]
    ELSE [status |-> 200, ctype |-> "text/plain; version=0.0.4",
          body |-> [kind |-> "exposition", msg |-> "", blocks |-> data]]

\* the handler's last step: the response written for the request record r
Responded(r) ==
    [r EXCEPT !.pc = "done",
              !.status = HandlerResponse(r.text, r.err).status,
              !.ctype = HandlerResponse(r.text, r.err).ctype,
              !.body = HandlerResponse(r.text, r.err).body]

\* the server accepts a request (at most `limit` in one behaviour) and calls
\* the handler, which sends the upstream request: Handler lines 32-36,
\* fetchMetrics lines 87-114
Serve(h, limit) ==
    /\ ~crashed
    /\ server = "serving"
    /\ listener = "listening"
    /\ req[h].pc \in {"idle", "done"}
    /\ scrapes < limit
    /\ scrapes' = scrapes + 1
    /\ req' = [req EXCEPT ![h] = [IdleReq EXCEPT !.pc = "fetch",
                                                 !.fetches = 1,
                                                 !.url = FetchURL(opts[h])]]
    /\ UNCHANGED <<stamps, cluster, changes, queue, failures, worker, cache, crashed, delay, server, kubeApiserver, opts, stored, optionsInit, defaultOptions, call, listener, logged, startErr>>

\* the server accepts a request and rest.TransportFor fails (fetchMetrics
\* lines 96-99): the handler answers without any upstream request
ServeNoTransport(h, limit) ==
    /\ ~crashed
    /\ server = "serving"
    /\ listener = "listening"
    /\ req[h].pc \in {"idle", "done"}
    /\ scrapes < limit
    /\ scrapes' = scrapes + 1
    /\ req' = [req EXCEPT ![h] = Responded([IdleReq EXCEPT
                                               !.fetch = "failed to create transport",
                                               !.err = "fetch error"])]
    /\ UNCHANGED <<stamps, cluster, changes, queue, failures, worker, cache, crashed, delay, server, kubeApiserver, opts, stored, optionsInit, defaultOptions, call, listener, logged, startErr>>

\* the client goes away or its deadline passes while the upstream request is
\* in flight: r.Context() is cancelled (no later stage consults the context)
Cancel(h) ==
    /\ ~crashed
    /\ req[h].pc = "fetch"
    /\ ~req[h].cancelled
    /\ req' = [req EXCEPT ![h].cancelled = TRUE]
    /\ UNCHANGED <<stamps, cluster, changes, queue, failures, worker, cache, scrapes, crashed, delay, server, kubeApiserver, opts, stored, optionsInit, defaultOptions, call, listener, logged, startErr>>

\* fetchMetrics lines 109-125 on a request made without the context
FetchOkIgnoreCtx(h, body) ==
    /\ ~crashed
    /\ req[h].pc = "fetch"
    /\ req' = [req EXCEPT ![h].pc = "parse", ![h].fetch = "ok",
                          ![h].respBody = body, ![h].raw = body]
    /\ UNCHANGED <<stamps, cluster, changes, queue, failures, worker, cache, scrapes, crashed, delay, server, kubeApiserver, opts, stored, optionsInit, defaultOptions, call, listener, logged, startErr>>

\* fetchMetrics lines 109-125: status 200 and a body read to its end; the
\* request carries the context (line 109), so neither httpClient.Do nor
\* io.ReadAll succeeds once it is cancelled
FetchOk(h, body) ==
    /\ ~crashed
    /\ req[h].pc = "fetch"
    /\ ~req[h].cancelled
    /\ req' = [req EXCEPT ![h].pc = "parse", ![h].fetch = "ok",
                          ![h].respBody = body, ![h].raw = body]
    /\ UNCHANGED <<stamps, cluster, changes, queue, failures, worker, cache, scrapes, crashed, delay, server, kubeApiserver, opts, stored, optionsInit, defaultOptions, call, listener, logged, startErr>>

\* lines 114-123 sending the request once more after a failure
FetchFailRetry(h, why) ==
    /\ ~crashed
    /\ req[h].pc = "fetch"
    /\ req[h].fetches < 2
    /\ req' = [req EXCEPT ![h].fetches = @ + 1]
    /\ UNCHANGED <<stamps, cluster, changes, queue, failures, worker, cache, scrapes, crashed, delay, server, kubeApiserver, opts, stored, optionsInit, defaultOptions, call, listener, logged, startErr>>

\* fetchMetrics lines 114-123 and FetchAndProcessMetrics lines 63-65: the
\* request fails or the upstream answers with another status
FetchFail(h, why) ==
    /\ ~crashed
    /\ req[h].pc = "fetch"
    /\ req' = [req EXCEPT ![h] = Responded([@ EXCEPT !.fetch = why, !.err = "fetch error"])]
    /\ UNCHANGED <<stamps, cluster, changes, queue, failures, worker, cache, scrapes, crashed, delay, server, kubeApiserver, opts, stored, optionsInit, defaultOptions, call, listener, logged, startErr>>

\* FetchAndProcessMetrics lines 67-75: parse, then enter EnrichMetricFamilies
Parse(h) ==
    /\ ~crashed
    /\ req[h].pc = "parse"
    /\ IF DecodeErr(req[h].raw)
       THEN req' = [req EXCEPT ![h] = Responded([@ EXCEPT !.parse = "error",
                                                          !.err = "failed to parse metrics"])]
       ELSE \E order \in Orders(FamilyNames(req[h].raw)) :
               req' = [req EXCEPT ![h].pc = "enrich",
                                  ![h].parse = "ok",
                                  ![h].parsed = Decode(req[h].raw),
                                  ![h].families = Decode(req[h].raw),
                                  ![h].todo = VisitOrder(Decode(req[h].raw), order)]
    /\ UNCHANGED <<stamps, cluster, changes, queue, failures, worker, cache, scrapes, crashed, delay, server, kubeApiserver, opts, stored, optionsInit, defaultOptions, call, listener, logged, startErr>>

\* the handler is about to read the cache (line 142) for its next sample
Reading(h) ==
    /\ req[h].pc = "enrich"
    /\ req[h].todo # <<>>
    /\ NsValue(LabelsAt(req[h].families, Head(req[h].todo))) # ""

\* the worker is about to write the cache (part_001 line 51)
Writing(w) == worker[w].pc = "store"

\* lines 131-155 remembering a namespace the lookup of line 142 did not find
EnrichSampleMemo(h) ==
    /\ ~crashed
    /\ req[h].pc = "enrich"
    /\ req[h].todo # <<>>
    /\ \E out \in EnrichLabels(LabelsAt(req[h].families, Head(req[h].todo)), cache) :
          req' = [req EXCEPT ![h].families = SetLabels(@, Head(req[h].todo), out),
                             ![h].todo = Tail(@)]
    /\ cache' = IF /\ NsValue(LabelsAt(req[h].families, Head(req[h].todo))) # ""
                   /\ NsValue(LabelsAt(req[h].families, Head(req[h].todo))) \notin DOMAIN cache
                THEN Store(cache, NsValue(LabelsAt(req[h].families, Head(req[h].todo))), NoLabels)
                ELSE cache
    /\ UNCHANGED <<stamps, cluster, changes, queue, failures, worker, scrapes, crashed, delay, server, kubeApiserver, opts, stored, optionsInit, defaultOptions, call, listener, logged, startErr>>

\* lines 131-155 for the next sample
EnrichSample(h) ==
    /\ ~crashed
    /\ req[h].pc = "enrich"
    /\ req[h].todo # <<>>
    /\ \E out \in EnrichLabels(LabelsAt(req[h].families, Head(req[h].todo)), cache) :
          req' = [req EXCEPT ![h].families = SetLabels(@, Head(req[h].todo), out),
                             ![h].todo = Tail(@)]
    /\ UNCHANGED <<stamps, cluster, changes, queue, failures, worker, cache, scrapes, crashed, delay, server, kubeApiserver, opts, stored, optionsInit, defaultOptions, call, listener, logged, startErr>>

\* lines 132-142 for the next sample, one statement at a time: find nsValue
\* and look the namespace up; extraLabels refers to the map found
LookupEntry(h) ==
    /\ ~crashed
    /\ req[h].pc = "enrich"
    /\ req[h].todo # <<>>
    /\ IF Matches(LabelsAt(req[h].families, Head(req[h].todo)), cache)
       THEN LET found == cache[NsValue(LabelsAt(req[h].families, Head(req[h].todo)))]
            IN req' = [req EXCEPT ![h].pc = "range",
                                  ![h].extra = found,
                                  ![h].taken = found,
                                  ![h].left = DOMAIN found]
       ELSE req' = [req EXCEPT ![h].todo = Tail(@)]
    /\ UNCHANGED <<stamps, cluster, changes, queue, failures, worker, cache, scrapes, crashed, delay, server, kubeApiserver, opts, stored, optionsInit, defaultOptions, call, listener, logged, startErr>>

\* lines 143-152: one iteration of the range over extraLabels, at the key k
RangeStep(h, k) ==
    /\ ~crashed
    /\ req[h].pc = "range"
    /\ k \in req[h].left \cap DOMAIN req[h].extra
    /\ req' = [req EXCEPT
                  ![h].families =
                      IF hasLabel(LabelsAt(@, Head(req[h].todo)), k) THEN @
                      ELSE SetLabels(@, Head(req[h].todo),
                                     Append(LabelsAt(@, Head(req[h].todo)),
                                            LabelPair(k, req[h].extra[k]))),
                  ![h].left = @ \ {k}]
    /\ UNCHANGED <<stamps, cluster, changes, queue, failures, worker, cache, scrapes, crashed, delay, server, kubeApiserver, opts, stored, optionsInit, defaultOptions, call, listener, logged, startErr>>

\* line 143: the range is over, on to the next sample
RangeEnd(h) ==
    /\ ~crashed
    /\ req[h].pc = "range"
    /\ req[h].left \cap DOMAIN req[h].extra = {}
    /\ req' = [req EXCEPT ![h].pc = "enrich", ![h].todo = Tail(@), ![h].left = {},
                          ![h].extra = NoLabels, ![h].taken = NoLabels]
    /\ UNCHANGED <<stamps, cluster, changes, queue, failures, worker, cache, scrapes, crashed, delay, server, kubeApiserver, opts, stored, optionsInit, defaultOptions, call, listener, logged, startErr>>

\* lines 158-166, FetchAndProcessMetrics lines 76-80 and Handler lines 37-44
Encode(h) ==
    /\ ~crashed
    /\ req[h].pc = "enrich"
    /\ req[h].todo = <<>>
    /\ \E order \in Orders(DOMAIN req[h].families) :
          req' = [req EXCEPT ![h] = Responded(
                     [@ EXCEPT !.encode = IF EncodeErr(req[h].families) THEN "error" ELSE "ok",
                               !.err = IF EncodeErr(req[h].families)
                                       THEN "failed to enrich metrics" ELSE "",
                               !.text = IF EncodeErr(req[h].families) THEN <<>>
                                        ELSE EncodeFamilies(req[h].families, order)])]
    /\ UNCHANGED <<stamps, cluster, changes, queue, failures, worker, cache, scrapes, crashed, delay, server, kubeApiserver, opts, stored, optionsInit, defaultOptions, call, listener, logged, startErr>>

\* the map is read and written without synchronisation: an access that meets
\* a write in progress observes the map before or after it (the order of
\* the two steps), or the Go runtime detects the concurrent access and
\* throws a fatal error (metrics.go line 142 against part_001 line 51)
FatalMapAccess ==
    /\ ~crashed
    /\ \E w \in Workers :
          /\ Writing(w)
          /\ \/ \E h \in Handlers : Reading(h)
             \/ \E x \in Workers \ {w} : Writing(x)
    /\ crashed' = TRUE
    /\ UNCHANGED <<stamps, cluster, changes, queue, failures, worker, cache, req, scrapes, delay, server, kubeApiserver, opts, stored, optionsInit, defaultOptions, call, listener, logged, startErr>>

---------------------------------------------------------------------------
(* ServerRunnable.Start, part_002 lines 81-99 *)

InFlight(h) == req[h].pc \notin {"idle", "done"}

\* lines 85-86: the goroutine runs and ListenAndServe binds the port
Listen ==
    /\ ~crashed
    /\ server = "serving"
    /\ listener = "starting"
    /\ listener' = "listening"
    /\ UNCHANGED <<stamps, cluster, changes, queue, failures, worker, cache, req, scrapes, crashed, delay, kubeApiserver, opts, stored, optionsInit, defaultOptions, call, server, logged, startErr>>

\* lines 86-88 handing the listener's error to Start, which returns it
ListenFailReturns ==
    /\ ~crashed
    /\ server = "serving"
    /\ listener \in {"starting", "listening"}
    /\ listener' = "failed"
    /\ logged' = TRUE
    /\ server' = "returned"
    /\ startErr' = "listen error"
    /\ UNCHANGED <<stamps, cluster, changes, queue, failures, worker, cache, req, scrapes, crashed, delay, kubeApiserver, opts, stored, optionsInit, defaultOptions, call>>

\* lines 86-88: ListenAndServe returns an error other than ErrServerClosed
\* (the port cannot be bound, or accepting fails later); it is logged and
\* the goroutine ends
ListenFail ==
    /\ ~crashed
    /\ server = "serving"
    /\ listener \in {"starting", "listening"}
    /\ listener' = "failed"
    /\ logged' = TRUE
    /\ UNCHANGED <<stamps, cluster, changes, queue, failures, worker, cache, req, scrapes, crashed, delay, kubeApiserver, opts, stored, optionsInit, defaultOptions, call, server, startErr>>

\* line 86: the goroutine runs after Shutdown was called; ListenAndServe
\* returns ErrServerClosed, which is not logged
ListenClosed ==
    /\ ~crashed
    /\ server # "serving"
    /\ listener = "starting"
    /\ listener' = "closed"
    /\ UNCHANGED <<stamps, cluster, changes, queue, failures, worker, cache, req, scrapes, crashed, delay, kubeApiserver, opts, stored, optionsInit, defaultOptions, call, server, logged, startErr>>

\* line 92-98: the start context is done and Shutdown closes the listener
Stop ==
    /\ ~crashed
    /\ server = "serving"
    /\ server' = "draining"
    /\ listener' = IF listener = "listening" THEN "closed" ELSE listener
    /\ UNCHANGED <<stamps, cluster, changes, queue, failures, worker, cache, req, scrapes, crashed, delay, kubeApiserver, opts, stored, optionsInit, defaultOptions, call, logged, startErr>>

\* line 98: every connection has become idle, Shutdown and Start return nil
ShutdownDone ==
    /\ ~crashed
    /\ server = "draining"
    /\ \A h \in Handlers : ~InFlight(h)
    /\ server' = "returned"
    /\ startErr' = "nil"
    /\ UNCHANGED <<stamps, cluster, changes, queue, failures, worker, cache, req, scrapes, crashed, delay, kubeApiserver, opts, stored, optionsInit, defaultOptions, call, listener, logged>>

\* lines 95-98: the 5 seconds of shutdownCtx are over with a request still
\* being served; http.Server.Shutdown returns the context's error and leaves
\* the active connections as they are, and Start returns
GraceExpired ==
    /\ ~crashed
    /\ server = "draining"
    /\ \E h \in Handlers : InFlight(h)
    /\ server' = "returned"
    /\ startErr' = "context deadline exceeded"
    /\ UNCHANGED <<stamps, cluster, changes, queue, failures, worker, cache, req, scrapes, crashed, delay, kubeApiserver, opts, stored, optionsInit, defaultOptions, call, listener, logged>>

---------------------------------------------------------------------------
(* The concurrent system *)

Init ==
    /\ stamps \in BOOLEAN
    /\ cluster = [n \in NsNames |-> IF n = "ns1"
                                    THEN Present(ObjectLabels(n, Map1("team", "frontend")))
                                    ELSE Absent]
    /\ changes = 0
    /\ queue = {"ns1"}
    /\ failures = [n \in NsNames |-> 0]
    /\ worker = [w \in Workers |-> IdleWorker]
    /\ cache = <<>>
    /\ req = [h \in Handlers |-> IdleReq]
    /\ scrapes = 0
    /\ crashed = FALSE
    /\ delay = [n \in NsNames |-> 0]
    /\ server = "serving"
    /\ kubeApiserver = ""
    /\ opts = NewServerRunnable(kubeApiserver)
    /\ stored = [n \in NsNames |-> 0]
    /\ optionsInit = "done"
    /\ defaultOptions = SetupOptions
    /\ call = [c \in Callers |-> IdleCall]
    /\ listener = "listening"
    /\ logged = FALSE
    /\ startErr = "pending"

Next ==
    \/ \E n \in NsNames : \E user \in UserLabelSets(n) : CreateNamespace(n, user, MaxChanges)
    \/ \E n \in NsNames : \E user \in UserLabelSets(n) : UpdateLabels(n, user, MaxChanges)
    \/ \E n \in NsNames : DeleteNamespace(n, MaxChanges)
    \/ \E w \in Workers : \E n \in NsNames : Dequeue(w, n)
    \/ \E w \in Workers : GetError(w, MaxFailures)
    \/ \E w \in Workers : GetNotFound(w)
    \/ \E w \in Workers : Return(w)
    \/ \E w \in Workers : GetEmpty(w)
    \/ \E w \in Workers : GetLabels(w)
    \/ \E w \in Workers : StoreEntry(w)
    \/ \E h \in Scraped : Serve(h, MaxScrapes)
    \/ \E h \in Scraped : ServeNoTransport(h, MaxScrapes)
    \/ \E h \in Handlers : \E body \in UpstreamBodies : FetchOk(h, body)
    \/ \E h \in Handlers : \E why \in {"do request", "bad status code"} : FetchFail(h, why)
    \/ \E h \in Handlers : Parse(h)
    \/ \E h \in Handlers : EnrichSample(h)
    \/ \E h \in Handlers : Encode(h)
    \/ FatalMapAccess

Spec == Init /\ [][Next]_vars

---------------------------------------------------------------------------
(* The reconciler under cluster events, nobody scrapes: every read is       *)
(* stamped with the number of events that have happened.                    *)

NextOrder ==
    \/ \E n \in NsNames : \E user \in UserLabelSets(n) : CreateNamespace(n, user, MaxEvents)
    \/ \E n \in NsNames : \E user \in UserLabelSets(n) : UpdateLabels(n, user, MaxEvents)
    \/ \E n \in NsNames : DeleteNamespace(n, MaxEvents)
    \/ \E w \in Workers : \E n \in NsNames : Dequeue(w, n)
    \/ \E w \in Workers : GetError(w, MaxFailures)
    \/ \E w \in Workers : GetNotFound(w)
    \/ \E w \in Workers : Return(w)
    \/ \E w \in Workers : GetEmpty(w)
    \/ \E w \in Workers : GetLabelsAt(w)
    \/ \E w \in Workers : StoreEntry(w)
    \/ FatalMapAccess

SpecOrder == Init /\ [][NextOrder]_vars

---------------------------------------------------------------------------
(* The reconciler alone: ns1 exists, ns2 was deleted, both are queued, the  *)
(* reads of the API server fail up to MaxRetries times in a row and nobody  *)
(* scrapes. One namespace at most is ever written to the cache.             *)

InitRetry ==
    /\ stamps \in BOOLEAN
    /\ \E user \in {NoLabels, Map1("team", "frontend")} :
          cluster = [n \in NsNames |-> IF n = "ns1" THEN Present(ObjectLabels(n, user))
                                       ELSE Absent]
    /\ changes = 0
    /\ queue = NsNames
    /\ failures = [n \in NsNames |-> 0]
    /\ worker = [w \in Workers |-> IdleWorker]
    /\ cache \in {<<>>, Map1("ns2", Map1("team", "backend"))}
    /\ req = [h \in Handlers |-> IdleReq]
    /\ scrapes = 0
    /\ crashed = FALSE
    /\ delay = [n \in NsNames |-> 0]
    /\ server = "serving"
    /\ kubeApiserver = ""
    /\ opts = NewServerRunnable(kubeApiserver)

\* the steps of reconcile worker w
    /\ stored = [n \in NsNames |-> 0]
    /\ optionsInit = "done"
    /\ defaultOptions = SetupOptions
    /\ call = [c \in Callers |-> IdleCall]
    /\ listener = "listening"
    /\ logged = FALSE
    /\ startErr = "pending"

WorkerStep(w) ==
    \/ \E n \in NsNames : Dequeue(w, n)
    \/ GetError(w, MaxRetries)
    \/ GetNotFound(w)
    \/ Return(w)
    \/ GetEmpty(w)
    \/ GetLabels(w)
    \/ StoreEntry(w)

NextRetry == \E w \in Workers : WorkerStep(w)

\* every worker goroutine keeps running, and the queue hands out a requeued
\* item once its delay is over
SpecRetry == InitRetry /\ [][NextRetry]_vars /\ \A w \in Workers : WF_vars(WorkerStep(w))

---------------------------------------------------------------------------
(* The server alone, from the call of Start: the listener starts or fails,  *)
(* both paths are requested, clients may go away, the server may be         *)
(* stopped; the cache does not change.                                      *)

KubeApiserverChoices == {"", "kube.example"}

InitServe ==
    /\ stamps = TRUE
    /\ cluster = [n \in NsNames |-> Absent]
    /\ changes = 0
    /\ queue = {}
    /\ failures = [n \in NsNames |-> 0]
    /\ worker = [w \in Workers |-> IdleWorker]
    /\ cache \in {<<>>, Map1("ns1", Merge(Map1("team", "frontend"), Map1("env", "prod")))}
    /\ req = [h \in Handlers |-> IdleReq]
    /\ scrapes = 0
    /\ crashed = FALSE
    /\ delay = [n \in NsNames |-> 0]
    /\ server = "serving"
    /\ kubeApiserver \in KubeApiserverChoices
    /\ opts = NewServerRunnable(kubeApiserver)
    /\ stored = [n \in NsNames |-> 0]
    /\ optionsInit = "done"
    /\ defaultOptions = SetupOptions
    /\ call = [c \in Callers |-> IdleCall]
    /\ listener = "starting"
    /\ logged = FALSE
    /\ startErr = "pending"

NextServe ==
    \/ \E h \in Handlers : Serve(h, MaxServed)
    \/ \E h \in Handlers : ServeNoTransport(h, MaxServed)
    \/ \E h \in Handlers : Cancel(h)
    \/ \E h \in Handlers : \E body \in UpstreamBodies \cup MisplacedBodies :
          FetchOk(h, body)
    \/ \E h \in Handlers : \E why \in {"do request", "bad status code"} : FetchFail(h, why)
    \/ \E h \in Handlers : Parse(h)
    \/ \E h \in Handlers : EnrichSample(h)
    \/ \E h \in Handlers : Encode(h)
    \/ Listen
    \/ ListenFail
    \/ ListenClosed
    \/ Stop
    \/ ShutdownDone
    \/ GraceExpired

SpecServe == InitServe /\ [][NextServe]_vars

---------------------------------------------------------------------------
(* EnrichMetricFamilies alone: one call on drawn inputs, the cache fixed *)

CacheEntryChoices ==
    {NoLabels,
     Map1("team", "frontend"),
     Merge(Map1("team", "frontend"), Map1("env", "prod")),
     Merge(Map1("team", "frontend"), Map1("namespace", "other"))}

CacheChoices ==
    {<<>>, Map1("ns2", Map1("team", "backend"))} \cup
    {Map1("ns1", e) : e \in CacheEntryChoices} \cup
    {Merge(Map1("ns1", e), Map1("ns2", Map1("team", "backend"))) : e \in CacheEntryChoices}

EnrichSampleLabels ==
    {<<>>} \cup
    {ns \o rest :
        ns \in {<<>>} \cup {<<LabelPair("namespace", v)>> : v \in SampleNsValues},
        rest \in {<<LabelPair("pod", "x")>>, <<LabelPair("team", "legacy")>>}}

EnrichLines == {SampleLine(n, ls, 1) : n \in FamilyChoices, ls \in EnrichSampleLabels}

EnrichInputs == UNION {[1..k -> EnrichLines] : k \in 1..MaxSamples}

InitEnrich ==
    /\ stamps = TRUE
    /\ cluster = [n \in NsNames |-> Absent]
    /\ changes = 0
    /\ queue = {}
    /\ failures = [n \in NsNames |-> 0]
    /\ worker = [w \in Workers |-> IdleWorker]
    /\ cache \in CacheChoices
    /\ \E raw \in EnrichInputs \cup AnnotatedBodies : \E order \in Orders(FamilyNames(raw)) :
          req = [h \in Handlers |->
                    IF h \in Scraped
                    THEN [IdleReq EXCEPT !.pc = "enrich", !.fetch = "ok", !.raw = raw,
                                         !.parse = "ok",
                                         !.parsed = Decode(raw), !.families = Decode(raw),
                                         !.todo = VisitOrder(Decode(raw), order)]
                    ELSE IdleReq]
    /\ scrapes = 0
    /\ crashed = FALSE
    /\ delay = [n \in NsNames |-> 0]
    /\ server = "serving"
    /\ kubeApiserver = ""
    /\ opts = NewServerRunnable(kubeApiserver)
    /\ stored = [n \in NsNames |-> 0]
    /\ optionsInit = "done"
    /\ defaultOptions = SetupOptions
    /\ call = [c \in Callers |-> IdleCall]
    /\ listener = "listening"
    /\ logged = FALSE
    /\ startErr = "pending"

NextEnrich ==
    \/ \E h \in Handlers : EnrichSample(h)
    \/ \E h \in Handlers : Encode(h)

SpecEnrich == InitEnrich /\ [][NextEnrich]_vars

---------------------------------------------------------------------------
(* EnrichMetricFamilies called twice on the same families, the cache fixed *)

TwiceSampleLabels ==
    {<<LabelPair("namespace", "ns1"), LabelPair("pod", "x")>>,
     <<LabelPair("namespace", "ns1"), LabelPair("team", "legacy")>>,
     <<LabelPair("namespace", "unknown-ns"), LabelPair("pod", "x")>>,
     <<LabelPair("pod", "x")>>}

TwiceLines == {SampleLine(n, ls, 1) : n \in FamilyChoices, ls \in TwiceSampleLabels}

TwiceInputs == UNION {[1..k -> TwiceLines] : k \in 1..MaxSamples}

InitTwice ==
    /\ stamps = TRUE
    /\ cluster = [n \in NsNames |-> Absent]
    /\ changes = 0
    /\ queue = {}
    /\ failures = [n \in NsNames |-> 0]
    /\ worker = [w \in Workers |-> IdleWorker]
    /\ cache \in CacheChoices
    /\ \E raw \in TwiceInputs : \E order \in Orders(FamilyNames(raw)) :
          req = [h \in Handlers |->
                    IF h \in Scraped
                    THEN [IdleReq EXCEPT !.pc = "enrich", !.fetch = "ok", !.raw = raw,
                                         !.parse = "ok",
                                         !.parsed = Decode(raw), !.families = Decode(raw),
                                         !.todo = VisitOrder(Decode(raw), order)]
                    ELSE IdleReq]
    /\ scrapes = 0
    /\ crashed = FALSE
    /\ delay = [n \in NsNames |-> 0]
    /\ server = "serving"
    /\ kubeApiserver = ""
    /\ opts = NewServerRunnable(kubeApiserver)

\* the loops of lines 130-156 are entered once more on the families the
\* first call has left
    /\ stored = [n \in NsNames |-> 0]
    /\ optionsInit = "done"
    /\ defaultOptions = SetupOptions
    /\ call = [c \in Callers |-> IdleCall]
    /\ listener = "listening"
    /\ logged = FALSE
    /\ startErr = "pending"

EnrichAgain(h) ==
    /\ ~crashed
    /\ req[h].pc = "enrich"
    /\ req[h].todo = <<>>
    /\ req[h].pass = 1
    /\ \E order \in Orders(DOMAIN req[h].families) :
          req' = [req EXCEPT ![h].pass = 2,
                             ![h].once = req[h].families,
                             ![h].todo = VisitOrder(req[h].families, order)]
    /\ UNCHANGED <<stamps, cluster, changes, queue, failures, worker, cache, scrapes, crashed, delay, server, kubeApiserver, opts, stored, optionsInit, defaultOptions, call, listener, logged, startErr>>

NextTwice ==
    \/ \E h \in Handlers : EnrichSample(h)
    \/ \E h \in Handlers : EnrichAgain(h)

SpecTwice == InitTwice /\ [][NextTwice]_vars

---------------------------------------------------------------------------
(* One call of EnrichMetricFamilies, statement by statement, while the      *)
(* reconciler replaces the entry of ns1: the cache holds the labels ns1 had *)
(* before, the cluster holds its new labels and the event is queued.        *)

LabelsBefore == Merge(Map1("team", "frontend"), Map1("env", "prod"))

LabelsAfter == Merge(Map1("team", "backend"), Map1("env", "dev"))

InitSample ==
    /\ stamps \in BOOLEAN
    /\ cluster = [n \in NsNames |-> IF n = "ns1" THEN Present(ObjectLabels(n, LabelsAfter))
                                    ELSE Absent]
    /\ changes = 1
    /\ queue = {"ns1"}
    /\ failures = [n \in NsNames |-> 0]
    /\ worker = [w \in Workers |-> IdleWorker]
    /\ cache = Map1("ns1", LabelsBefore)
    /\ \E raw \in {b \in UpstreamBodies : ~DecodeErr(b)} :
          \E order \in Orders(FamilyNames(raw)) :
             req = [h \in Handlers |->
                       IF h \in Scraped
                       THEN [IdleReq EXCEPT !.pc = "enrich", !.fetch = "ok", !.raw = raw,
                                            !.parse = "ok",
                                            !.parsed = Decode(raw), !.families = Decode(raw),
                                            !.todo = VisitOrder(Decode(raw), order)]
                       ELSE IdleReq]
    /\ scrapes = 0
    /\ crashed = FALSE
    /\ delay = [n \in NsNames |-> 0]
    /\ server = "serving"
    /\ kubeApiserver = ""
    /\ opts = NewServerRunnable(kubeApiserver)
    /\ stored = [n \in NsNames |-> 0]
    /\ optionsInit = "done"
    /\ defaultOptions = SetupOptions
    /\ call = [c \in Callers |-> IdleCall]
    /\ listener = "listening"
    /\ logged = FALSE
    /\ startErr = "pending"

NextSample ==
    \/ \E w \in Workers : \E n \in NsNames : Dequeue(w, n)
    \/ \E w \in Workers : GetLabels(w)
    \/ \E w \in Workers : StoreEntry(w)
    \/ \E h \in Handlers : LookupEntry(h)
    \/ \E h \in Handlers : \E k \in {"team", "env"} : RangeStep(h, k)
    \/ \E h \in Handlers : RangeEnd(h)
    \/ FatalMapAccess

SpecSample == InitSample /\ [][NextSample]_vars

---------------------------------------------------------------------------
(* controllerOptions alone: goroutines call it, each up to MaxCalls times,  *)
(* with arguments of their own; no call has been made yet.                  *)

InitOptions ==
    /\ stamps = TRUE
    /\ cluster = [n \in NsNames |-> Absent]
    /\ changes = 0
    /\ queue = {}
    /\ failures = [n \in NsNames |-> 0]
    /\ worker = [w \in Workers |-> IdleWorker]
    /\ cache = <<>>
    /\ req = [h \in Handlers |-> IdleReq]
    /\ scrapes = 0
    /\ crashed = FALSE
    /\ delay = [n \in NsNames |-> 0]
    /\ server = "serving"
    /\ kubeApiserver = ""
    /\ opts = NewServerRunnable(kubeApiserver)
    /\ stored = [n \in NsNames |-> 0]
    /\ optionsInit = "new"
    /\ defaultOptions = NoOptions
    /\ call = [c \in Callers |-> IdleCall]
    /\ listener = "listening"
    /\ logged = FALSE
    /\ startErr = "pending"

NextOptions ==
    \/ \E c \in Callers : \E mc \in MaxConcurrencyChoices : \E t \in CacheSyncTimeoutChoices :
          Call(c, mc, t)
    \/ \E c \in Callers : NewLimiter(c)
    \/ \E c \in Callers : DoEnter(c)
    \/ \E c \in Callers : DoInit(c)
    \/ \E c \in Callers : DoSkip(c)
    \/ \E c \in Callers : ReturnOptions(c)

SpecOptions == InitOptions /\ [][NextOptions]_vars

---------------------------------------------------------------------------
(* Properties of EnrichMetricFamilies *)

AllPositions(fams) == UNION {{<<n, i>> : i \in 1..Len(fams[n].metric)} : n \in DOMAIN fams}

Range(seq) == {seq[i] : i \in 1..Len(seq)}

\* the samples the enrichment loop of handler h has finished with
Visited(h) ==
    IF req[h].parse = "ok"
    THEN AllPositions(req[h].parsed) \ Range(req[h].todo)
    ELSE {}

Orig(h, p) == LabelsAt(req[h].parsed, p)

Out(h, p) == LabelsAt(req[h].families, p)

UniqueNames(labels) ==
    \A i, j \in 1..Len(labels) : labels[i].name = labels[j].name => i = j

\* C1: a sample with a namespace label whose value is a key of the cache
\* carries, after enrichment, every key of that entry it did not carry
\* before, with the cached value.
C1_MissingKeysAdded ==
    \A h \in Handlers : \A p \in Visited(h) :
        \A i \in 1..Len(Orig(h, p)) :
            (Orig(h, p)[i].name = "namespace" /\ Orig(h, p)[i].value \in DOMAIN cache) =>
                \A k \in DOMAIN cache[Orig(h, p)[i].value] :
                    ~(\E x \in 1..Len(Orig(h, p)) : Orig(h, p)[x].name = k) =>
                        LabelPair(k, cache[Orig(h, p)[i].value][k]) \in Range(Out(h, p))

C1_Witness ==
    \E h \in Handlers : \E p \in Visited(h) :
        /\ LabelPair("namespace", "ns1") \in Range(Orig(h, p))
        /\ "ns1" \in DOMAIN cache
        /\ DOMAIN cache["ns1"] = {"team", "env"}
        /\ Len(Out(h, p)) = Len(Orig(h, p)) + 2

\* C2: every label present on a sample before enrichment is present with the
\* same value afterwards, and no label of that name carries another value,
\* also when the cache entry holds a different value for the name.
C2_NeverOverwrites ==
    \A h \in Handlers : \A p \in Visited(h) :
        \A i \in 1..Len(Orig(h, p)) :
            /\ Orig(h, p)[i] \in Range(Out(h, p))
            /\ \A j \in 1..Len(Out(h, p)) :
                  Out(h, p)[j].name = Orig(h, p)[i].name =>
                      Out(h, p)[j].value = Orig(h, p)[i].value

C2_Witness ==
    \E h \in Handlers : \E p \in Visited(h) :
        /\ LabelPair("namespace", "ns1") \in Range(Orig(h, p))
        /\ LabelPair("team", "legacy") \in Range(Orig(h, p))
        /\ "ns1" \in DOMAIN cache
        /\ "team" \in DOMAIN cache["ns1"]
        /\ cache["ns1"]["team"] = "frontend"
        /\ LabelPair("team", "legacy") \in Range(Out(h, p))

\* C3: a sample without a namespace label, or whose namespace value is no
\* key of the cache, leaves enrichment with the label list it came with.
C3_UnmatchedIdentity ==
    \A h \in Handlers : \A p \in Visited(h) :
        (\A i \in 1..Len(Orig(h, p)) :
             Orig(h, p)[i].name = "namespace" => Orig(h, p)[i].value \notin DOMAIN cache)
        => Out(h, p) = Orig(h, p)

C3_Witness ==
    \E h \in Handlers : \E p \in Visited(h) :
        /\ LabelPair("namespace", "unknown-ns") \in Range(Orig(h, p))
        /\ DOMAIN cache = {"ns1", "ns2"}
        /\ Out(h, p) = Orig(h, p)

\* C4: a sample whose label names are pairwise distinct before enrichment has
\* pairwise distinct label names afterwards, for every cache content, also
\* when a cache entry holds the key `namespace`.
C4_NamesStayUnique ==
    \A h \in Handlers : \A p \in Visited(h) :
        UniqueNames(Orig(h, p)) => UniqueNames(Out(h, p))

C4_Witness ==
    \E h \in Handlers : \E p \in Visited(h) :
        /\ LabelPair("namespace", "ns1") \in Range(Orig(h, p))
        /\ "ns1" \in DOMAIN cache
        /\ "namespace" \in DOMAIN cache["ns1"]
        /\ Len(Out(h, p)) > Len(Orig(h, p))
        /\ UniqueNames(Out(h, p))

---------------------------------------------------------------------------
(* Properties of the reconciler and of the concurrent system *)

\* what a lookup of namespace n in the map c yields (a missing entry reads
\* as the empty label map)
CacheEntry(c, n) == IF n \in DOMAIN c THEN c[n] ELSE NoLabels

MinusMeta(ls) == [k \in (DOMAIN ls) \ {"kubernetes.io/metadata.name"} |-> ls[k]]

\* every event for n has been reconciled: n is not queued and no worker holds it
Synced(n) == n \notin queue /\ ~Processing(n)

\* C5: when a Reconcile for namespace N whose read succeeded returns, and N's
\* label set is still the one it read, cache[N] equals that label set minus
\* the name-identity label, for every label set and every prior entry.
C5_ReconcileReplaces ==
    [][\A w \in Workers :
          (/\ worker[w].pc # "idle"
           /\ worker'[w].pc = "idle"
           /\ cluster[worker[w].key].exists
           /\ worker[w].key \notin queue')
          => CacheEntry(cache', worker[w].key) = MinusMeta(cluster[worker[w].key].labels)]_vars

\* C6: no write of the cache by a Reconcile overlaps a read of it by
\* EnrichMetricFamilies or a write of it by another Reconcile.
C6_MutualExclusion ==
    \A w \in Workers :
        Writing(w) => /\ \A h \in Handlers : ~Reading(h)
                      /\ \A x \in Workers \ {w} : ~Writing(x)

\* the labels enrichment has added to the sample at p
Derived(h, p) == Range(Out(h, p)) \ Range(Orig(h, p))

Names(labels) == {labels[i].name : i \in 1..Len(labels)}

\* C7: all samples of one response are enriched against one cache state; in
\* particular two samples of a response with the same namespace value and the
\* same original label names carry the same cache-derived labels.
C7_OneSnapshotPerPass ==
    \A h \in Handlers : \A p, q \in Visited(h) :
        (/\ NsValue(Orig(h, p)) = NsValue(Orig(h, q))
         /\ Names(Orig(h, p)) = Names(Orig(h, q)))
        => Derived(h, p) = Derived(h, q)

StageFailed(r) ==
    \/ r.fetch \in {"failed to create transport", "do request", "bad status code"}
    \/ r.parse = "error"
    \/ r.encode = "error"

StagesOk(r) == r.fetch = "ok" /\ r.parse = "ok" /\ r.encode = "ok"

\* C8: a request one of whose stages failed is answered with status 500, a
\* plain-text error description and no exposition body; status 200 with
\* content type text/plain; version=0.0.4 is written only when every stage
\* succeeded; nothing is written before the handler's last step.
C8_FailedScrapeIsOneError ==
    \A h \in Handlers :
        /\ req[h].pc # "done" => (req[h].status = 0 /\ req[h].body = NoBody)
        /\ req[h].pc = "done" =>
              /\ StageFailed(req[h]) =>
                    /\ req[h].status = 500
                    /\ req[h].ctype = "text/plain; charset=utf-8"
                    /\ req[h].body.kind = "error"
                    /\ req[h].body.msg # ""
                    /\ req[h].body.blocks = <<>>
              /\ (\/ req[h].status = 200
                  \/ req[h].ctype = "text/plain; version=0.0.4"
                  \/ req[h].body.kind = "exposition") =>
                    /\ StagesOk(req[h])
                    /\ req[h].status = 200
                    /\ req[h].ctype = "text/plain; version=0.0.4"
              /\ req[h].status \in {200, 500}

C8_Witness ==
    \E h \in Handlers :
        /\ req[h].pc = "done"
        /\ req[h].parse = "error"
        /\ req[h].status = 500
        /\ req[h].body.kind = "error"

\* C9: once every event of a namespace that exists has been reconciled, its
\* cache entry equals its label set minus the name-identity label (the state
\* the cache must settle in when the label set stops changing).
C9_SettlesConsistent ==
    \A n \in NsNames :
        (~crashed /\ Synced(n) /\ cluster[n].exists)
        => CacheEntry(cache, n) = MinusMeta(cluster[n].labels)

\* C10: while the latest change of namespace N's labels is reconciled and N
\* carries team=v, a sample of N without a team label of its own leaves
\* enrichment with team=v and with no other team value.
C10_RedirectsAfterReconcile ==
    [][\A h \in Handlers :
          (/\ req[h].pc = "enrich"
           /\ req[h].todo # <<>>
           /\ req'[h].todo = Tail(req[h].todo)
           /\ NsValue(Orig(h, Head(req[h].todo))) \in NsNames
           /\ Synced(NsValue(Orig(h, Head(req[h].todo))))
           /\ cluster[NsValue(Orig(h, Head(req[h].todo)))].exists
           /\ "team" \in DOMAIN cluster[NsValue(Orig(h, Head(req[h].todo)))].labels
           /\ "team" \notin Names(Orig(h, Head(req[h].todo))))
          => LET p == Head(req[h].todo)
                 v == cluster[NsValue(Orig(h, p))].labels["team"]
                 out == LabelsAt(req'[h].families, p)
             IN /\ LabelPair("team", v) \in Range(out)
                /\ \A j \in 1..Len(out) : out[j].name = "team" => out[j].value = v]_vars

C10_Witness ==
    \E h \in Handlers : \E p \in Visited(h) :
        /\ NsValue(Orig(h, p)) = "ns1"
        /\ "team" \notin Names(Orig(h, p))
        /\ Synced("ns1")
        /\ cluster["ns1"].exists
        /\ "team" \in DOMAIN cluster["ns1"].labels
        /\ cluster["ns1"].labels["team"] = "backend"
        /\ LabelPair("team", "backend") \in Range(Out(h, p))

---------------------------------------------------------------------------
(* Properties of the reconcile outcomes *)

\* C11: a Reconcile of namespace N whose read answers "not found" returns no
\* error, the controller does not requeue N, and neither step changes the
\* cache; an entry stored for N before stays and is applied to every later
\* sample with namespace=N.
C11_NotFoundIsNoOp ==
    [][/\ \A w \in Workers :
             /\ (worker[w].pc = "get" /\ worker'[w].pc = "return"
                 /\ worker'[w].read = "not found")
                => (worker'[w].err = "" /\ cache' = cache /\ queue' = queue)
             /\ (worker[w].pc = "return" /\ worker[w].read = "not found"
                 /\ worker'[w].pc = "idle")
                => /\ cache' = cache
                   /\ queue' = queue
                   /\ failures'[worker[w].key] = 0
                   /\ delay'[worker[w].key] = 0
       /\ \A h \in Handlers :
             (/\ req[h].pc = "enrich"
              /\ req[h].todo # <<>>
              /\ req'[h].todo = Tail(req[h].todo)
              /\ NsValue(Orig(h, Head(req[h].todo))) \in NsNames
              /\ ~cluster[NsValue(Orig(h, Head(req[h].todo)))].exists
              /\ NsValue(Orig(h, Head(req[h].todo))) \in DOMAIN cache)
             => LET p == Head(req[h].todo)
                    entry == cache[NsValue(Orig(h, p))]
                    out == LabelsAt(req'[h].families, p)
                IN \A k \in DOMAIN entry :
                      k \notin Names(Orig(h, p)) => LabelPair(k, entry[k]) \in Range(out)]_vars

\* ns1 was deleted and its not-found reconcile is over; a sample of ns1
\* enriched since carries the label of the entry that stayed
C11_Witness ==
    \E h \in Handlers : \E p \in Visited(h) :
        /\ ~cluster["ns1"].exists
        /\ Synced("ns1")
        /\ changes = 1
        /\ "ns1" \in DOMAIN cache
        /\ NsValue(Orig(h, p)) = "ns1"
        /\ "team" \notin Names(Orig(h, p))
        /\ LabelPair("team", "frontend") \in Range(Out(h, p))

\* C12: a read of namespace N that fails with an error other than not-found
\* makes Reconcile return that error with the cache unchanged; the controller
\* requeues N with a delay of 30 seconds after the first failure, twice the
\* delay before after each consecutive one, never under 30 seconds nor over
\* 5 minutes; and N is eventually reconciled again.
C12_RetryWithBackoff ==
    /\ [][\A w \in Workers :
             /\ (worker[w].pc = "get" /\ worker'[w].pc = "return"
                 /\ worker'[w].read \notin {"", "not found"})
                => (worker'[w].err = worker'[w].read /\ cache' = cache)
             /\ (worker[w].pc = "return" /\ worker[w].err # "" /\ worker'[w].pc = "idle")
                => LET n == worker[w].key
                   IN /\ cache' = cache
                      /\ n \in queue'
                      /\ failures'[n] = failures[n] + 1
                      /\ delay'[n] >= 30
                      /\ delay'[n] <= 300
                      /\ failures[n] = 0 => delay'[n] = 30
                      /\ failures[n] > 0 =>
                            delay'[n] = IF 2 * delay[n] > 300 THEN 300 ELSE 2 * delay[n]]_vars
    /\ \A n \in NsNames : (n \in queue /\ delay[n] > 0) ~> Processing(n)

\* the fifth failure in a row of ns1 is requeued with the longest delay, and
\* ns1 is later read again
C12_Witness ==
    \E w \in Workers :
        /\ failures["ns1"] = 5
        /\ delay["ns1"] = 300
        /\ worker[w].pc = "get"
        /\ worker[w].key = "ns1"

---------------------------------------------------------------------------
(* Properties of the request path *)

\* the exposition blocks are an encoding of the families of the body raw:
\* the same families with their help and type, each with its samples in the
\* order of the body, every sample with its value and timestamp and with
\* its labels of the body first
FromBody(blocks, raw) ==
    /\ Len(blocks) = Cardinality(FamilyNames(raw))
    /\ {blocks[i].name : i \in 1..Len(blocks)} = FamilyNames(raw)
    /\ \A i \in 1..Len(blocks) :
          LET m == MetricsOf(raw, blocks[i].name)
              lines == blocks[i].lines
          IN /\ blocks[i].help = HelpOf(raw, blocks[i].name)
             /\ blocks[i].type = TypeOf(raw, blocks[i].name)
             /\ Len(lines) = Len(m)
             /\ \A j \in 1..Len(lines) :
                   /\ lines[j].value = m[j].value
                   /\ lines[j].ts = m[j].ts
                   /\ Len(lines[j].labels) >= Len(m[j].label)
                   /\ SubSeq(lines[j].labels, 1, Len(m[j].label)) = m[j].label

\* a response is made of the body returned to the fetch of its own request
UsesOwnBody(h) ==
    /\ req[h].fetch = "ok" => req[h].raw = req[h].respBody
    /\ (req[h].pc = "done" /\ req[h].status = 200) =>
          /\ req[h].fetch = "ok"
          /\ FromBody(req[h].body.blocks, req[h].respBody)

\* C13 as stated: every handled request has sent exactly one upstream request
\* when it is answered (never two, never none), and a 200 response is made of
\* the body returned to that request's own fetch.
C13_ExactlyOneFetch ==
    \A h \in Handlers :
        /\ req[h].fetches <= 1
        /\ req[h].pc = "done" => req[h].fetches = 1
        /\ UsesOwnBody(h)

\* C13 amended: every handled request sends at most one upstream request, and
\* exactly one unless the transport cannot be built, in which case it is
\* answered 500 without any upstream request; a 200 response is made of the
\* body returned to that request's own fetch.
C13_AtMostOneFetch ==
    \A h \in Handlers :
        /\ req[h].fetches <= 1
        /\ req[h].pc = "done" =>
              /\ req[h].fetches = 0 <=> req[h].fetch = "failed to create transport"
              /\ req[h].fetches = 0 => req[h].status = 500
        /\ UsesOwnBody(h)

\* two requests served side by side, each answered 200 from the body of its
\* own fetch, the two bodies being different
C13_Witness ==
    /\ req["/metrics"].pc = "done"
    /\ req["/metrics/cadvisor"].pc = "done"
    /\ req["/metrics"].status = 200
    /\ req["/metrics/cadvisor"].status = 200
    /\ req["/metrics"].fetches = 1
    /\ req["/metrics/cadvisor"].fetches = 1
    /\ req["/metrics"].respBody # req["/metrics/cadvisor"].respBody
    /\ req["/metrics"].body # req["/metrics/cadvisor"].body

\* the upstream target of the path h, written out for both shapes
Target(h) ==
    LET sub == IF h = "/metrics" THEN "metrics" ELSE "metrics/cadvisor"
    IN IF kubeApiserver # ""
       THEN "https://" \o kubeApiserver \o ":" \o nodePort
            \o "/api/v1/nodes/" \o nodeNameOrIP \o "/proxy/" \o sub
       ELSE "https://" \o nodeNameOrIP \o ":" \o nodePort \o "/" \o sub

\* C14: the handler of each path is constructed with its own upstream target
\* in the shape the kubeApiserver argument selects, the targets of the two
\* paths differ, and every upstream request of a path goes to its target.
C14_TargetBoundAtConstruction ==
    /\ \A h \in Handlers :
          /\ FetchURL(opts[h]) = Target(h)
          /\ req[h].fetches > 0 => req[h].url = Target(h)
    /\ Target("/metrics") # Target("/metrics/cadvisor")

\* through the API server, the second request of the behaviour is one on
\* /metrics/cadvisor and went to the proxy subresource of the node
C14_Witness ==
    /\ kubeApiserver = "kube.example"
    /\ scrapes = 2
    /\ req["/metrics"].pc = "done"
    /\ req["/metrics"].url = "https://kube.example:10250/api/v1/nodes/10.0.0.7/proxy/metrics"
    /\ req["/metrics/cadvisor"].pc = "parse"
    /\ req["/metrics/cadvisor"].url =
           "https://kube.example:10250/api/v1/nodes/10.0.0.7/proxy/metrics/cadvisor"

\* the labels of the sample at position p in the exposition blocks
LineLabels(blocks, p) ==
    blocks[CHOOSE i \in 1..Len(blocks) : blocks[i].name = p[1]].lines[p[2]].labels

\* C15: a request whose fetch and decode succeeded is answered 200 with the
\* families of its body whatever the cache holds; a sample whose namespace
\* the cache lacks keeps its original labels through enrichment and in the
\* response; and the handler's next step never waits for the cache.
C15_ColdCacheIsNoError ==
    \A h \in Handlers :
        /\ (req[h].pc = "done" /\ req[h].fetch = "ok" /\ req[h].parse = "ok") =>
              /\ req[h].status = 200
              /\ FromBody(req[h].body.blocks, req[h].respBody)
        /\ \A p \in Visited(h) :
              NsValue(Orig(h, p)) \notin DOMAIN cache =>
                  /\ Out(h, p) = Orig(h, p)
                  /\ req[h].pc = "done" => LineLabels(req[h].body.blocks, p) = Orig(h, p)
        /\ (~crashed /\ req[h].pc = "enrich" /\ req[h].todo # <<>>) => ENABLED EnrichSample(h)
        /\ (~crashed /\ req[h].pc = "enrich" /\ req[h].todo = <<>>) => ENABLED Encode(h)

\* a request answered 200 while the cache is still empty, its ns1 sample
\* emitted as it came
C15_Witness ==
    \E h \in Handlers : \E p \in Visited(h) :
        /\ cache = <<>>
        /\ req[h].pc = "done"
        /\ req[h].status = 200
        /\ NsValue(Orig(h, p)) = "ns1"
        /\ LineLabels(req[h].body.blocks, p) = Orig(h, p)

\* C16: once the context of a request is cancelled with its upstream request
\* in flight, the fetch does not complete: the next step of the request ends
\* it with a fetch error and status 500, and neither the parser nor the
\* enrichment nor the encoder has run for it.
C16_CancelAbortsFetch ==
    [][\A h \in Handlers :
          /\ (req[h].pc = "fetch" /\ req[h].cancelled /\ req'[h] # req[h]) =>
                /\ req'[h].pc = "done"
                /\ req'[h].fetch \notin {"", "ok"}
                /\ req'[h].status = 500
                /\ req'[h].body.kind = "error"
          /\ (req'[h].cancelled /\ req'[h].pc # "fetch") =>
                /\ req'[h].pc = "done"
                /\ req'[h].raw = <<>>
                /\ req'[h].parse = ""
                /\ req'[h].families = <<>>
                /\ req'[h].encode = ""]_vars

\* a request cancelled in flight and answered with the error of its fetch
C16_Witness ==
    \E h \in Handlers :
        /\ req[h].cancelled
        /\ req[h].pc = "done"
        /\ req[h].fetches = 1
        /\ req[h].fetch = "do request"
        /\ req[h].status = 500

\* C17: once the start context is cancelled the server accepts no request;
\* the requests in flight go on while the server drains; and when Start
\* returns no request is in flight any more (those the grace period did not
\* see complete have been closed).
C17_GracefulStop ==
    [][/\ server # "serving" =>
             \A h \in Handlers : req[h].pc \in {"idle", "done"} => req'[h] = req[h]
       /\ server' = "returned" =>
             \A h \in Handlers : req'[h].pc \in {"idle", "done"}]_vars

\* C18: with the cache unchanged, two runs of the pipeline on the same
\* upstream body answer with the same response body: the same order of the
\* families and the same order of the labels of every sample.
C18_DeterministicOutput ==
    \A h, g \in Handlers :
        (/\ req[h].pc = "done" /\ req[h].status = 200
         /\ req[g].pc = "done" /\ req[g].status = 200
         /\ req[h].respBody = req[g].respBody)
        => req[h].body = req[g].body

\* C19: a second call of EnrichMetricFamilies on the families the first call
\* left, against the same cache, leaves every sample it has passed with the
\* label list the first call gave it, and the same families and samples.
C19_EnrichIdempotent ==
    \A h \in Handlers :
        req[h].pass = 2 =>
            /\ DOMAIN req[h].families = DOMAIN req[h].once
            /\ AllPositions(req[h].families) = AllPositions(req[h].once)
            /\ \A p \in AllPositions(req[h].once) \ Range(req[h].todo) :
                  LabelsAt(req[h].families, p) = LabelsAt(req[h].once, p)
            /\ req[h].todo = <<>> => req[h].families = req[h].once

\* the second call has passed a sample of ns1 to which the first call had
\* added the two labels of the cache entry
C19_Witness ==
    \E h \in Handlers : \E p \in AllPositions(req[h].parsed) :
        /\ req[h].pass = 2
        /\ p \notin Range(req[h].todo)
        /\ NsValue(Orig(h, p)) = "ns1"
        /\ "ns1" \in DOMAIN cache
        /\ Len(LabelsAt(req[h].once, p)) = Len(Orig(h, p)) + 2
        /\ LabelsAt(req[h].families, p) = LabelsAt(req[h].once, p)

\* C20: no step of a request changes the cache; the cache changes only in
\* the step of a Reconcile that writes its entry (part_001 line 51), and
\* there only at the key of that Reconcile.
C20_CacheReadOnlyForRequests ==
    [][/\ (\E h \in Handlers : req'[h] # req[h]) => cache' = cache
       /\ cache' # cache =>
             \E w \in Workers :
                /\ worker[w].pc = "store"
                /\ worker'[w].pc = "idle"
                /\ DOMAIN cache' = DOMAIN cache \cup {worker[w].key}
                /\ \A n \in DOMAIN cache : n # worker[w].key => cache'[n] = cache[n]]_vars

\* a request answered from a cache filled by Reconcile: its ns1 sample carries
\* the cached label and the entry is as Reconcile stored it
C20_Witness ==
    \E h \in Handlers : \E p \in Visited(h) :
        /\ req[h].pc = "done"
        /\ req[h].status = 200
        /\ "ns1" \in DOMAIN cache
        /\ cache["ns1"] = Map1("team", "frontend")
        /\ NsValue(Orig(h, p)) = "ns1"
        /\ LineLabels(req[h].body.blocks, p) = Append(Orig(h, p), LabelPair("team", "frontend"))

---------------------------------------------------------------------------
(* Properties of the cache as a whole *)

\* C21: no cache entry holds the key kubernetes.io/metadata.name, and no
\* label of that name is among the labels enrichment has added to a sample.
C21_NameLabelNeverStored ==
    /\ \A n \in DOMAIN cache : "kubernetes.io/metadata.name" \notin DOMAIN cache[n]
    /\ \A h \in Handlers : \A p \in Visited(h) :
          \A l \in Derived(h, p) : l.name # "kubernetes.io/metadata.name"

\* ns1 carries the name-identity label in the cluster, its entry is stored
\* without it, and a sample of ns1 has been enriched from that entry
C21_Witness ==
    \E h \in Handlers : \E p \in Visited(h) :
        /\ cluster["ns1"].exists
        /\ "kubernetes.io/metadata.name" \in DOMAIN cluster["ns1"].labels
        /\ "ns1" \in DOMAIN cache
        /\ cache["ns1"] = Map1("team", "frontend")
        /\ NsValue(Orig(h, p)) = "ns1"
        /\ Derived(h, p) = {LabelPair("team", "frontend")}

\* C22: no step removes a key from the cache: a key present before a step
\* (a cluster event, a step of a Reconcile, a step of a request) is present
\* after it.
C22_EntriesNeverRemoved ==
    [][DOMAIN cache \subseteq DOMAIN cache']_vars

\* ns1 has been deleted from the cluster, the Reconcile of the deletion is
\* over, and the entry stored for ns1 is still there
C22_Witness ==
    /\ ~cluster["ns1"].exists
    /\ changes = 1
    /\ Synced("ns1")
    /\ failures["ns1"] = 0
    /\ "ns1" \in DOMAIN cache
    /\ \A w \in Workers : worker[w].pc = "idle"

\* C23: two Reconcile executions of one namespace never overlap, whatever
\* the workers do; so the writes of cache[N] follow the order of the reads
\* that produced them: the labels a write installs were never read before
\* the labels it replaces.
C23_NoStaleOverwrite ==
    /\ [](\A w, x \in Workers :
             (w # x /\ worker[w].pc # "idle" /\ worker[x].pc # "idle")
             => worker[w].key # worker[x].key)
    /\ [][/\ \A n \in NsNames : stored'[n] >= stored[n]
          /\ \A w \in Workers :
                (worker[w].pc = "store" /\ worker'[w].pc = "idle")
                => /\ worker[w].seen >= stored[worker[w].key]
                   /\ cache'[worker[w].key] = worker[w].labels
                   /\ stored'[worker[w].key] = worker[w].seen]_vars

\* the labels of ns1 changed between the read and the write of its
\* Reconcile: ns1 is queued again, a worker is idle, and the queue holds
\* the key back until that Reconcile has returned
C23_Witness ==
    /\ worker["w1"].pc = "store"
    /\ worker["w1"].key = "ns1"
    /\ worker["w1"].seen = 0
    /\ changes = 1
    /\ cluster["ns1"].exists
    /\ Strip(cluster["ns1"].labels) # worker["w1"].labels
    /\ "ns1" \in queue
    /\ worker["w2"].pc = "idle"
    /\ ~ENABLED Dequeue("w2", "ns1")

\* the pairs of the label map ls
Pairs(ls) == {LabelPair(k, ls[k]) : k \in DOMAIN ls}

\* C24: the map the lookup of a sample finds is the label set stored for its
\* namespace at that moment, and no step of a Reconcile changes it while the
\* range runs; so at every point of the range the labels of the sample are
\* its own labels followed by pairs of that one set, one for each key the
\* range has visited and the sample did not carry.
C24_OneVersionPerSample ==
    /\ [](\A h \in Handlers :
             req[h].pc = "range" =>
                /\ req[h].extra = req[h].taken
                /\ Derived(h, Head(req[h].todo)) \subseteq Pairs(req[h].taken)
                /\ Out(h, Head(req[h].todo)) \in
                      {AppendExtra(Orig(h, Head(req[h].todo)), req[h].taken, o) :
                          o \in Orders((DOMAIN req[h].taken) \ req[h].left)})
    /\ [][\A h \in Handlers :
             (req[h].pc = "enrich" /\ req'[h].pc = "range")
             => req'[h].taken = cache[NsValue(Orig(h, Head(req[h].todo)))]]_vars

\* the entry of ns1 was replaced while the range over the map found for a
\* sample of ns1 was under way, and the sample has both labels of the map
\* the lookup found
C24_Witness ==
    \E h \in Handlers :
        /\ req[h].pc = "range"
        /\ req[h].left = {}
        /\ NsValue(Orig(h, Head(req[h].todo))) = "ns1"
        /\ req[h].taken = LabelsBefore
        /\ cache["ns1"] = LabelsAfter
        /\ Derived(h, Head(req[h].todo)) = Pairs(LabelsBefore)

\* C25: no step of a Reconcile of namespace N, from the moment a worker takes
\* N to the moment the controller has its result, changes the presence or
\* the content of the cache entry of another key, whatever the read gave.
C25_ReconcileTouchesOwnKey ==
    [][\A w \in Workers :
          worker'[w] # worker[w] =>
             LET n == IF worker[w].pc = "idle" THEN worker'[w].key ELSE worker[w].key
             IN \A m \in (DOMAIN cache \cup DOMAIN cache') \ {n} :
                   /\ m \in DOMAIN cache
                   /\ m \in DOMAIN cache'
                   /\ cache'[m] = cache[m]]_vars

\* the entry of ns2 was written after the entry of ns1, which is as it was
C25_Witness ==
    /\ DOMAIN cache = {"ns1", "ns2"}
    /\ changes = 1
    /\ cluster["ns2"].exists
    /\ cache["ns1"] = Map1("team", "frontend")
    /\ cache["ns2"] = Map1("team", "backend")
    /\ \A w \in Workers : worker[w].pc = "idle"

---------------------------------------------------------------------------
(* The frame of EnrichMetricFamilies *)

\* the labels ls are the labels orig with pairs appended
Appended(ls, orig) ==
    /\ Len(ls) >= Len(orig)
    /\ SubSeq(ls, 1, Len(orig)) = orig

\* the families fams are the families before with labels appended: the same
\* families by name, help and type, each with as many samples, every sample
\* with its value, its timestamp and its labels of before
SameButLabels(fams, before) ==
    /\ DOMAIN fams = DOMAIN before
    /\ \A n \in DOMAIN before :
          /\ fams[n].name = before[n].name
          /\ fams[n].help = before[n].help
          /\ fams[n].type = before[n].type
          /\ Len(fams[n].metric) = Len(before[n].metric)
          /\ \A i \in 1..Len(before[n].metric) :
                /\ fams[n].metric[i].value = before[n].metric[i].value
                /\ fams[n].metric[i].ts = before[n].metric[i].ts
                /\ Appended(fams[n].metric[i].label, before[n].metric[i].label)

\* C26: throughout a call of EnrichMetricFamilies the families are the input
\* families with labels appended, and the text it returns has one block for
\* each input family, with its name, help and type and one line for each of
\* its samples, in their order, with the value, the timestamp and the
\* original labels of the sample.
C26_OnlyAppendsLabels ==
    \A h \in Handlers :
        /\ req[h].parse = "ok" => SameButLabels(req[h].families, req[h].parsed)
        /\ (req[h].pc = "done" /\ req[h].encode = "ok") =>
              LET blocks == req[h].text
                  before == req[h].parsed
              IN /\ Len(blocks) = Cardinality(DOMAIN before)
                 /\ {blocks[i].name : i \in 1..Len(blocks)} = DOMAIN before
                 /\ \A i \in 1..Len(blocks) :
                       LET mf == before[blocks[i].name]
                       IN /\ blocks[i].help = mf.help
                          /\ blocks[i].type = mf.type
                          /\ Len(blocks[i].lines) = Len(mf.metric)
                          /\ \A j \in 1..Len(mf.metric) :
                                /\ blocks[i].lines[j].value = mf.metric[j].value
                                /\ blocks[i].lines[j].ts = mf.metric[j].ts
                                /\ Appended(blocks[i].lines[j].labels, mf.metric[j].label)

\* a counter family with help text whose first sample, of ns1 and with a
\* timestamp, was emitted with its two labels and the one of the cache
C26_Witness ==
    \E h \in Handlers : \E i \in 1..Len(req[h].text) :
        /\ req[h].pc = "done"
        /\ req[h].status = 200
        /\ Len(req[h].text) = 2
        /\ req[h].text[i].name = "container_cpu_usage"
        /\ req[h].text[i].type = "counter"
        /\ req[h].text[i].help = "cpu seconds"
        /\ Len(req[h].text[i].lines) = 2
        /\ req[h].text[i].lines[1] =
               [labels |-> <<LabelPair("namespace", "ns1"), LabelPair("pod", "x"),
                             LabelPair("team", "frontend")>>,
                value |-> 1, ts |-> 1700]

---------------------------------------------------------------------------
(* Properties of controllerOptions and of the server's life *)

\* C27: defaultOptions is assigned once, by the call that finds the guard
\* new, from that call's arguments and rate limiter; at most one call is
\* inside the guarded function; and every call returns these options,
\* whatever its own arguments.
C27_OptionsBuiltOnce ==
    /\ [](/\ Cardinality({c \in Callers : call[c].pc = "init"}) <= 1
          /\ \A c, d \in Callers :
                (call[c].result # NoOptions /\ call[d].result # NoOptions)
                => call[c].result = call[d].result)
    /\ [][/\ defaultOptions # NoOptions => defaultOptions' = defaultOptions
          /\ defaultOptions' # defaultOptions =>
                \E c \in Callers :
                   /\ call[c].pc = "init"
                   /\ defaultOptions' = Options(call[c].rateLimiters,
                                                call[c].maxConcurrency,
                                                call[c].cacheSyncTimeout)
          /\ \A c \in Callers :
                (call[c].pc = "ret" /\ call'[c].pc = "idle")
                => /\ optionsInit = "done"
                   /\ defaultOptions # NoOptions
                   /\ call'[c].result = defaultOptions]_vars

\* the second call of c1, made with maxConcurrency 2 and a timeout of 60
\* seconds, has returned the options the first call of c2 built: one worker,
\* 120 seconds and the rate limiter of that call
C27_Witness ==
    /\ call["c1"].pc = "idle"
    /\ call["c1"].n = 2
    /\ call["c1"].maxConcurrency = 2
    /\ call["c1"].cacheSyncTimeout = 60
    /\ call["c1"].rateLimiters = <<"c1", 2>>
    /\ call["c1"].result = Options(<<"c2", 1>>, 1, 120)
    /\ call["c2"].result = call["c1"].result

\* C28: Start has not returned while its context is not cancelled; the
\* failure of the listener is logged and changes neither the state of Start
\* nor its result; and Start returns what Shutdown returns: nil when no
\* request is in flight any more, the error of the expired grace period
\* otherwise, never the error of the listener.
C28_StartWaitsForContext ==
    /\ [](/\ server = "serving" => startErr = "pending"
          /\ startErr # "pending" <=> server = "returned"
          /\ startErr \in {"pending", "nil", "context deadline exceeded"}
          /\ listener = "failed" => logged)
    /\ [][/\ (listener' = "failed" /\ listener # "failed")
             => (logged' /\ server' = server /\ startErr' = startErr)
          /\ startErr' # startErr
             => /\ server = "draining"
                /\ startErr' = IF \E h \in Handlers : InFlight(h)
                               THEN "context deadline exceeded" ELSE "nil"]_vars

\* the port could not be bound: the error was logged, no request was ever
\* served, and Start returned nil once its context was cancelled
C28_Witness ==
    /\ listener = "failed"
    /\ logged
    /\ scrapes = 0
    /\ server = "returned"
    /\ startErr = "nil"

=============================================================================
